---- MODULE Spec2Model ----
(***************************************************************************)
(* Model of dependencies/code_builder/start_build.py: the CloudFormation   *)
(* custom-resource handler that starts a CodeBuild build, polls it and     *)
(* reports the outcome with one HTTP PUT to the event's ResponseURL.       *)
(*                                                                         *)
(* pc is the handler's position; its values are the source lines of the    *)
(* statement about to run ("L47" = line 47), "send" while send() runs,     *)
(* "return" at a return statement, and "done" / "raised" / "killed" once   *)
(* the invocation has returned, let an exception escape, or was            *)
(* terminated by the host.                                                 *)
(*                                                                         *)
(* Times: elapsed_time, max_wait_time, wait_interval are seconds as in the *)
(* source.  remaining_time holds the reading in milliseconds; the source   *)
(* divides by 1000 (true division) and compares with 60, which for an      *)
(* integer reading is the comparison reading < 60 * 1000.                  *)
(***************************************************************************)
EXTENDS Integers, Sequences, FiniteSets, TLC

VARIABLES
    event,            \* the ProvisioningEvent (immutable input)
    context,          \* the ExecutionContext: [log_stream_name]
    host_remaining,   \* what context.get_remaining_time_in_millis() answers now
    build_state,      \* the CodeBuild service's record of the build
    pc,               \* handler position
    build_id,         \* local build_id ("" before the trigger returned)
    elapsed_time,     \* local elapsed_time
    remaining_time,   \* last remaining-time reading, in ms (-1: none yet)
    status,           \* local status of the last status query ("" : none yet)
    exc,              \* str(e) of the exception being handled ("" : none)
    send_args,        \* arguments of the send() call in progress / last made
    send_result,      \* what the last send() returned
    ret,              \* the returned payload ("" until the return statement)
    puts,             \* HTTP PUT requests issued, in order
    nSend,            \* number of calls of send()
    nTrigger,         \* number of codebuild.start_build calls
    nQuery,           \* number of codebuild.batch_get_builds calls
    nRemaining,       \* number of context.get_remaining_time_in_millis calls
    nSleep,           \* number of time.sleep calls
    codebuild_calls   \* the calls made on the codebuild client, in order

vars == <<event, context, host_remaining, build_state, pc, build_id,
          elapsed_time, remaining_time, status, exc, send_args, send_result,
          ret, puts, nSend, nTrigger, nQuery, nRemaining, nSleep,
          codebuild_calls>>

----------------------------------------------------------------------------
(* Program constants *)

wait_interval == 30

(* a budget two polls short of the host's ceiling less the margin *)
MaxWaitFourteenMinutes == 28 * wait_interval

max_wait_time == 900

(* the host's ceiling on an invocation, in seconds (comment of line 67) *)
HostCeiling == 900

(* a margin no larger than one sleep *)
MarginOfOneInterval == wait_interval

MarginSeconds == 60

RET_SUCCESS == "{ \"status\": 200, \"message\": \"success\" }"

RET_TIMEOUT == "{ \"status\": 500, \"message\": \"timeout\" }"

RET_BUILD_FAILED == "{ \"status\": 500, \"message\": \"build_failed\" }"

RET_ERROR == "{ \"status\": 500, \"message\": \"error\" }"

FailureStatuses == {"FAILED", "FAULT", "STOPPED", "TIMED_OUT"}

BuildStatuses == {"IN_PROGRESS", "SUCCEEDED"} \cup FailureStatuses

----------------------------------------------------------------------------
(* Bounds of the model: the inputs the environment may supply *)

NumCorrelations == 2

MaxPutSlots == 2

RequestTypes == {"Create", "Update", "Delete"}

Events ==
    { [RequestType |-> t,
       ResponseURL |-> "https://cfn.example/response/" \o ToString(i),
       StackId |-> "stack-" \o ToString(i),
       RequestId |-> "request-" \o ToString(i),
       LogicalResourceId |-> "resource-" \o ToString(i)]
      : t \in RequestTypes, i \in 1..NumCorrelations }

Contexts == { [log_stream_name |-> "2026/11/06/[$LATEST]stream"] }

BuildIds == {"mirror:build-1", "mirror:build-2"}

ErrorTexts == {"AccessDeniedException", "list index out of range"}

RemainingReadings == {0, 50000, 59999, 60000, 60001, 900000}

ReadingStep == 15000

FallingReadings ==
    { k * ReadingStep : k \in 0..((HostCeiling * 1000) \div ReadingStep) }
        \cup {59999, 60001}

HostTimeouts == {3000, 60000, 89999, 90000, 120000, 900000}

PutDelays == { k * wait_interval * 1000 : k \in 0..MaxPutSlots }

----------------------------------------------------------------------------
(* Values *)

None == <<>>

NotCalled == [called |-> FALSE]

EmptyDict == [k \in {} |-> k]

NoCall == [site |-> "", responseStatus |-> "", responseData |-> EmptyDict,
           physicalResourceId |-> None, noEcho |-> FALSE, reason |-> None]

Finished == {"done", "raised", "killed"}

(* The f-strings of the handler, as the sequence of their pieces. *)
NoActionMsg == <<"No action required">>

TimeoutApproachingMsg(b) ==
    <<"Lambda timeout approaching. Build ", b,
      " still running. Please check CodeBuild console.">>

SucceededMsg(b) ==
    <<"CodeBuild project completed successfully. Build ID: ", b>>

BuildFailedMsg(s, b) ==
    <<"CodeBuild ", s, ". Build ID: ", b, ". Check CloudWatch logs.">>

LoopTimeoutMsg(b) ==
    <<"CodeBuild did not complete within ", ToString(max_wait_time),
      "s. Build ID: ", b>>

(* a fixed text in place of str(e) *)
ErrorMsgWithoutText(e) == <<"Error: ", "build could not be started">>

ErrorMsg(e) == <<"Error: ", e>>

Mentions(msg, piece) == \E i \in DOMAIN msg : msg[i] = piece

(* Python's `a or b` for the two optional arguments of send(). *)
OrDefault(a, b) == IF a = None THEN b ELSE a

----------------------------------------------------------------------------
(* Exception propagation *)

(* a try block that ends before the poll loop *)
TrySitesTriggerOnly == {"L53"}

(* The statements of lambda_handler that lie inside its try block. *)
TrySites == {"L53", "L66", "L68", "L76", "L95", "L70", "L83", "L91", "L99"}

(* An exception with text e raised by the statement at `site`. *)
Raise(site, e) ==
    /\ exc' = e
    /\ pc' = IF site \in TrySites THEN "L104" ELSE "raised"

(* no except clause around http.request *)
SendCatchesNothing(e) == FALSE

(* send()'s `except Exception` around http.request. *)
SendCatches(e) == TRUE

(* line 108 missing: the except clause falls through to line 112 *)
ReturnAfterExceptFallsThrough(site) ==
    CASE site = "L70"  -> RET_TIMEOUT
      [] site = "L83"  -> RET_SUCCESS
      [] site = "L91"  -> RET_BUILD_FAILED
      [] site = "L99"  -> RET_TIMEOUT
      [] site = "L107" -> RET_SUCCESS
      [] site = "L110" -> RET_SUCCESS

(* The return statement that follows each call of send(). *)
ReturnAfter(site) ==
    CASE site = "L70"  -> RET_TIMEOUT
      [] site = "L83"  -> RET_SUCCESS
      [] site = "L91"  -> RET_BUILD_FAILED
      [] site = "L99"  -> RET_TIMEOUT
      [] site = "L107" -> RET_ERROR
      [] site = "L110" -> RET_SUCCESS

(* A call send(event, context, st, {"message": msg}) made at `site`. *)
CallSend(site, st, msg) ==
    /\ pc' = "send"
    /\ nSend' = nSend + 1
    /\ send_args' = [site |-> site, responseStatus |-> st,
                     responseData |-> [message |-> msg],
                     physicalResourceId |-> None, noEcho |-> FALSE,
                     reason |-> None]

(* Update handled like Create *)
IsCreateOrUpdate(ev) == ev["RequestType"] \in {"Create", "Update"}

(* line 47 *)
IsCreate(ev) == ev["RequestType"] = "Create"

(* the loop condition with <= *)
LoopContinuesInclusive(t) == t <= max_wait_time

(* line 66: the loop condition *)
LoopContinues(t) == t < max_wait_time

(* the threshold included *)
TimeoutImminentInclusive(r) == r <= MarginSeconds * 1000

(* the reading compared without the division by 1000 *)
TimeoutImminentInMillis(r) == r < MarginSeconds

(* lines 68-69: remaining_time = reading / 1000; remaining_time < 60 *)
TimeoutImminent(r) == r < MarginSeconds * 1000

(* the callback's word in place of CodeBuild's *)
IsSuccess(s) == s = "SUCCESS"

(* line 81 *)
IsSucceeded(s) == s = "SUCCEEDED"

(* a terminal status left out of the list *)
IsFailureShortList(s) == s \in {"FAILED", "FAULT", "STOPPED"}

(* line 88 *)
IsFailure(s) == s \in {"FAILED", "FAULT", "STOPPED", "TIMED_OUT"}

(* lines 53-57: the start_build call and the build id of its response
   ("" when the call raised) *)
StartBuildCall(b) == [op |-> "start_build", id |-> b]

(* the project's name in place of the build's id *)
QueryIdsOfProject(b) == <<"mirror">>

(* line 76: ids=[build_id] *)
QueryIds(b) == <<b>>

(* line 76: the batch_get_builds call *)
BatchGetBuildsCall(ids) == [op |-> "batch_get_builds", ids |-> ids]

(* Time dt (ms) passing on the host's clock. *)
TimePasses(t, dt) == IF t > dt THEN t - dt ELSE 0

----------------------------------------------------------------------------
Init ==
    /\ event \in Events
    /\ context \in Contexts
    /\ host_remaining \in HostTimeouts
    /\ build_state = "NONE"
    /\ pc = "L47"
    /\ build_id = ""
    /\ elapsed_time = 0
    /\ remaining_time = -1
    /\ status = ""
    /\ exc = ""
    /\ send_args = NoCall
    /\ send_result = NotCalled
    /\ ret = ""
    /\ puts = <<>>
    /\ nSend = 0
    /\ nTrigger = 0
    /\ nQuery = 0
    /\ nRemaining = 0
    /\ nSleep = 0
    /\ codebuild_calls = <<>>

(* line 47 and the else branch, line 110 *)
Dispatch ==
    /\ pc = "L47"
    /\ IF IsCreate(event)
       THEN /\ pc' = "L53"
            /\ UNCHANGED <<nSend, send_args>>
       ELSE CallSend("L110", "SUCCESS", NoActionMsg)
    /\ UNCHANGED <<codebuild_calls, event, context,
                   host_remaining, build_state, build_id,
                   elapsed_time, remaining_time, status, exc, send_result,
                   ret, puts, nTrigger, nQuery, nRemaining, nSleep>>

(* lines 49-64: start_build returns build id b *)
StartBuild(b) ==
    /\ pc = "L53"
    /\ nTrigger' = nTrigger + 1
    /\ build_state' = "IN_PROGRESS"
    /\ build_id' = b
    /\ elapsed_time' = 0
    /\ pc' = "L66"
    /\ codebuild_calls' = Append(codebuild_calls, StartBuildCall(b))
    /\ UNCHANGED <<event, context, host_remaining, remaining_time, status,
                   exc, send_args, send_result, ret, puts, nSend, nQuery,
                   nRemaining, nSleep>>

(* lines 49-57: the client, the environment lookup or start_build raises *)
StartBuildRaises(e) ==
    /\ pc = "L53"
    /\ nTrigger' = nTrigger + 1
    /\ Raise("L53", e)
    /\ codebuild_calls' = Append(codebuild_calls, StartBuildCall(""))
    /\ UNCHANGED <<event, context, host_remaining, build_state, build_id,
                   elapsed_time, remaining_time, status, send_args,
                   send_result, ret, puts, nSend, nQuery, nRemaining, nSleep>>

(* line 66, and lines 98-102 when the loop condition fails *)
LoopHead ==
    /\ pc = "L66"
    /\ IF LoopContinues(elapsed_time)
       THEN /\ pc' = "L68"
            /\ UNCHANGED <<nSend, send_args>>
       ELSE CallSend("L99", "FAILED", LoopTimeoutMsg(build_id))
    /\ UNCHANGED <<codebuild_calls, event, context,
                   host_remaining, build_state, build_id,
                   elapsed_time, remaining_time, status, exc, send_result,
                   ret, puts, nTrigger, nQuery, nRemaining, nSleep>>

(* lines 68-73: the context answers r milliseconds *)
CheckRemaining(r) ==
    /\ pc = "L68"
    /\ nRemaining' = nRemaining + 1
    /\ host_remaining' = r
    /\ remaining_time' = r
    /\ IF TimeoutImminent(r)
       THEN CallSend("L70", "FAILED", TimeoutApproachingMsg(build_id))
       ELSE /\ pc' = "L76"
            /\ UNCHANGED <<nSend, send_args>>
    /\ UNCHANGED <<codebuild_calls, event, context,
                   build_state, build_id, elapsed_time,
                   status, exc, send_result, ret, puts, nTrigger, nQuery,
                   nSleep>>

(* line 68: the remaining-time query raises *)
CheckRemainingRaises(e) ==
    /\ pc = "L68"
    /\ nRemaining' = nRemaining + 1
    /\ Raise("L68", e)
    /\ UNCHANGED <<codebuild_calls, event, context,
                   host_remaining, build_state, build_id,
                   elapsed_time, remaining_time, status, send_args,
                   send_result, ret, puts, nSend, nTrigger, nQuery, nSleep>>

(* lines 76-92: batch_get_builds answers the build's current status *)
QueryStatus ==
    /\ pc = "L76"
    /\ nQuery' = nQuery + 1
    /\ status' = build_state
    /\ IF IsSucceeded(build_state)
       THEN CallSend("L83", "SUCCESS", SucceededMsg(build_id))
       ELSE IF IsFailure(build_state)
       THEN CallSend("L91", "FAILED", BuildFailedMsg(build_state, build_id))
       ELSE /\ pc' = "L95"
            /\ UNCHANGED <<nSend, send_args>>
    /\ codebuild_calls' =
           Append(codebuild_calls, BatchGetBuildsCall(QueryIds(build_id)))
    /\ UNCHANGED <<event, context, host_remaining, build_state, build_id,
                   elapsed_time, remaining_time, exc, send_result, ret, puts,
                   nTrigger, nRemaining, nSleep>>

(* lines 76-77: batch_get_builds raises, or answers no build *)
QueryStatusRaises(e) ==
    /\ pc = "L76"
    /\ nQuery' = nQuery + 1
    /\ Raise("L76", e)
    /\ codebuild_calls' =
           Append(codebuild_calls, BatchGetBuildsCall(QueryIds(build_id)))
    /\ UNCHANGED <<event, context, host_remaining, build_state, build_id,
                   elapsed_time, remaining_time, status, send_args,
                   send_result, ret, puts, nSend, nTrigger, nRemaining,
                   nSleep>>

(* line 96 missing: the sleep is not added to elapsed_time *)
SleepUncounted(dt) ==
    /\ pc = "L95"
    /\ nSleep' = nSleep + 1
    /\ host_remaining' = TimePasses(host_remaining, dt)
    /\ pc' = "L66"
    /\ UNCHANGED <<codebuild_calls, event, context, build_state, build_id,
                   elapsed_time, remaining_time, status, exc, send_args,
                   send_result, ret, puts, nSend, nTrigger, nQuery,
                   nRemaining>>

(* lines 95-96: time.sleep(wait_interval), during which dt ms pass *)
Sleep(dt) ==
    /\ pc = "L95"
    /\ nSleep' = nSleep + 1
    /\ host_remaining' = TimePasses(host_remaining, dt)
    /\ elapsed_time' = elapsed_time + wait_interval
    /\ pc' = "L66"
    /\ UNCHANGED <<codebuild_calls, event, context,
                   build_state, build_id, remaining_time,
                   status, exc, send_args, send_result, ret, puts, nSend,
                   nTrigger, nQuery, nRemaining>>

(* an except clause that returns the error payload without reporting *)
ExceptWithoutSend ==
    /\ pc = "L104"
    /\ pc' = "return"
    /\ send_args' = [send_args EXCEPT !.site = "L107"]
    /\ UNCHANGED <<codebuild_calls, event, context,
                   host_remaining, build_state, build_id,
                   elapsed_time, remaining_time, status, exc, send_result,
                   ret, puts, nSend, nTrigger, nQuery, nRemaining, nSleep>>

(* lines 104-107: the handler's except clause *)
Except ==
    /\ pc = "L104"
    /\ CallSend("L107", "FAILED", ErrorMsg(exc))
    /\ UNCHANGED <<codebuild_calls, event, context,
                   host_remaining, build_state, build_id,
                   elapsed_time, remaining_time, status, exc, send_result,
                   ret, puts, nTrigger, nQuery, nRemaining, nSleep>>

(* RequestId filled from the StackId *)
ResponseBodyStackIdTwice(ev, ctx, a) ==
    [Status |-> a.responseStatus,
     Reason |-> OrDefault(a.reason,
                  <<"See the details in CloudWatch Log Stream: ",
                    ctx.log_stream_name>>),
     PhysicalResourceId |-> OrDefault(a.physicalResourceId,
                                      ctx.log_stream_name),
     StackId |-> ev["StackId"],
     RequestId |-> ev["StackId"],
     LogicalResourceId |-> ev["LogicalResourceId"],
     NoEcho |-> a.noEcho,
     Data |-> a.responseData]

(* lines 12-21: the body send() builds from its arguments *)
ResponseBody(ev, ctx, a) ==
    [Status |-> a.responseStatus,
     Reason |-> OrDefault(a.reason,
                  <<"See the details in CloudWatch Log Stream: ",
                    ctx.log_stream_name>>),
     PhysicalResourceId |-> OrDefault(a.physicalResourceId,
                                      ctx.log_stream_name),
     StackId |-> ev["StackId"],
     RequestId |-> ev["RequestId"],
     LogicalResourceId |-> ev["LogicalResourceId"],
     NoEcho |-> a.noEcho,
     Data |-> a.responseData]

(* lines 9-42: send(); the PUT takes dt ms and returns or raises *)
Send(put_raises, dt) ==
    /\ pc = "send"
    /\ puts' = Append(puts, [method |-> "PUT",
                             url |-> event["ResponseURL"],
                             body |-> ResponseBody(event, context, send_args)])
    /\ host_remaining' = TimePasses(host_remaining, dt)
    /\ IF ~put_raises
       THEN /\ send_result' = ResponseBody(event, context, send_args)
            /\ pc' = "return"
            /\ exc' = exc
       ELSE IF SendCatches("http.request failed")
       THEN /\ send_result' = EmptyDict
            /\ pc' = "return"
            /\ exc' = exc
       ELSE /\ send_result' = send_result
            /\ Raise(send_args.site, "http.request failed")
    /\ UNCHANGED <<codebuild_calls, event, context,
                   build_state, build_id, elapsed_time,
                   remaining_time, status, send_args, ret, nSend, nTrigger,
                   nQuery, nRemaining, nSleep>>

(* line 92 missing: after the build-failed report the loop goes on *)
ReturnExceptAfterBuildFailed ==
    /\ pc = "return"
    /\ IF send_args.site = "L91"
       THEN pc' = "L95" /\ ret' = ret
       ELSE pc' = "done" /\ ret' = ReturnAfter(send_args.site)
    /\ UNCHANGED <<codebuild_calls, event, context,
                   host_remaining, build_state, build_id,
                   elapsed_time, remaining_time, status, exc, send_args,
                   send_result, puts, nSend, nTrigger, nQuery, nRemaining,
                   nSleep>>

(* lines 73, 86, 92, 102, 108, 112: the return after the send() call *)
Return ==
    /\ pc = "return"
    /\ ret' = ReturnAfter(send_args.site)
    /\ pc' = "done"
    /\ UNCHANGED <<codebuild_calls, event, context,
                   host_remaining, build_state, build_id,
                   elapsed_time, remaining_time, status, exc, send_args,
                   send_result, puts, nSend, nTrigger, nQuery, nRemaining,
                   nSleep>>

(* Environment: the CodeBuild service moves the running build to a
   terminal status. *)
BuildAdvance(s) ==
    /\ build_state = "IN_PROGRESS"
    /\ pc \notin Finished
    /\ s \in BuildStatuses \ {"IN_PROGRESS"}
    /\ build_state' = s
    /\ UNCHANGED <<codebuild_calls, event, context,
                   host_remaining, pc, build_id,
                   elapsed_time, remaining_time, status, exc, send_args,
                   send_result, ret, puts, nSend, nTrigger, nQuery,
                   nRemaining, nSleep>>

(* Environment: the host terminates the invocation when no time is left. *)
HostKill ==
    /\ host_remaining = 0
    /\ pc \notin Finished
    /\ pc' = "killed"
    /\ UNCHANGED <<codebuild_calls, event, context,
                   host_remaining, build_state, build_id,
                   elapsed_time, remaining_time, status, exc, send_args,
                   send_result, ret, puts, nSend, nTrigger, nQuery,
                   nRemaining, nSleep>>

(* The handler driven by arbitrary collaborators: the context answers any
   reading, the clock is not observed otherwise. *)
Next ==
    \/ Dispatch
    \/ \E b \in BuildIds : StartBuild(b)
    \/ \E e \in ErrorTexts : StartBuildRaises(e)
    \/ LoopHead
    \/ \E r \in RemainingReadings : CheckRemaining(r)
    \/ \E e \in ErrorTexts : CheckRemainingRaises(e)
    \/ QueryStatus
    \/ \E e \in ErrorTexts : QueryStatusRaises(e)
    \/ Sleep(0)
    \/ Except
    \/ \E f \in BOOLEAN : Send(f, 0)
    \/ Return
    \/ \E s \in BuildStatuses : BuildAdvance(s)

Spec == Init /\ [][Next]_vars

(* The handler on the host: the context answers the host's clock, which
   runs down while the handler sleeps and while the PUT is in flight, and
   the host terminates the invocation at 0. *)
HostNext ==
    \/ Dispatch
    \/ \E b \in BuildIds : StartBuild(b)
    \/ \E e \in ErrorTexts : StartBuildRaises(e)
    \/ LoopHead
    \/ CheckRemaining(host_remaining)
    \/ \E e \in ErrorTexts : CheckRemainingRaises(e)
    \/ QueryStatus
    \/ \E e \in ErrorTexts : QueryStatusRaises(e)
    \/ Sleep(wait_interval * 1000)
    \/ Except
    \/ \E f \in BOOLEAN, dt \in PutDelays : Send(f, dt)
    \/ Return
    \/ \E s \in BuildStatuses : BuildAdvance(s)
    \/ HostKill

HostSpec == Init /\ [][HostNext]_vars

(* The steps of the handler itself: every step but the build service's. *)
HandlerStep ==
    \/ Dispatch
    \/ \E b \in BuildIds : StartBuild(b)
    \/ \E e \in ErrorTexts : StartBuildRaises(e)
    \/ LoopHead
    \/ \E r \in RemainingReadings : CheckRemaining(r)
    \/ \E e \in ErrorTexts : CheckRemainingRaises(e)
    \/ QueryStatus
    \/ \E e \in ErrorTexts : QueryStatusRaises(e)
    \/ Sleep(0)
    \/ Except
    \/ \E f \in BOOLEAN : Send(f, 0)
    \/ Return

(* Every external call returns or raises, and the handler is one sequential
   thread: its next step is eventually taken. *)
FairSpec == Init /\ [][Next]_vars /\ WF_vars(HandlerStep)

(* The handler under a context whose first reading is at most the host's
   ceiling and whose every later reading is at least one poll interval
   below the reading before it. *)
FallingReading(r) ==
    IF remaining_time = -1
    THEN r <= HostCeiling * 1000
    ELSE r <= remaining_time - wait_interval * 1000

FallingNext ==
    \/ Dispatch
    \/ \E b \in BuildIds : StartBuild(b)
    \/ \E e \in ErrorTexts : StartBuildRaises(e)
    \/ LoopHead
    \/ \E r \in FallingReadings : FallingReading(r) /\ CheckRemaining(r)
    \/ \E e \in ErrorTexts : CheckRemainingRaises(e)
    \/ QueryStatus
    \/ \E e \in ErrorTexts : QueryStatusRaises(e)
    \/ Sleep(0)
    \/ Except
    \/ \E f \in BOOLEAN : Send(f, 0)
    \/ Return
    \/ \E s \in BuildStatuses : BuildAdvance(s)

FallingSpec == Init /\ [][FallingNext]_vars

----------------------------------------------------------------------------
(* Properties *)

Message == send_args.responseData.message

Reported == pc \in {"return", "done"}

(* The one PUT carries the report of the send() call in progress. *)
OnePut(st, msg) ==
    /\ Len(puts) = 1
    /\ puts[1].method = "PUT"
    /\ puts[1].body.Status = st
    /\ puts[1].body.Data = [message |-> msg]

(* C1: in every reachable state of an invocation, whatever the event, the
   build's statuses, the remaining-time readings and the exceptions, send()
   has been called at most once and at most one PUT has been issued. *)
AtMostOneCallback == nSend <= 1 /\ Len(puts) <= 1

AtMostOneCallbackWitness ==
    pc = "done" /\ nSend = 1 /\ Len(puts) = 1 /\ nQuery >= 3 /\ nSleep >= 2

(* C2: an invocation that has returned has called send() exactly once, and
   that call issued its one PUT, on every exit path. *)
ReturnedAfterOneCallback ==
    pc = "done" =>
        /\ nSend = 1
        /\ Len(puts) = 1
        /\ send_args.site \in {"L70", "L83", "L91", "L99", "L107", "L110"}
        /\ ret = ReturnAfter(send_args.site)

ReturnedAfterOneCallbackWitness ==
    pc = "done" /\ send_args.site = "L99" /\ nSend = 1 /\ ret = RET_TIMEOUT

(* C3: for an event whose RequestType is not "Create" the handler never
   triggers a build nor queries a status, sends one SUCCESS callback with
   message "No action required", and returns the success payload. *)
NonCreateIsNoOp ==
    event["RequestType"] # "Create" =>
        /\ nTrigger = 0
        /\ nQuery = 0
        /\ nRemaining = 0
        /\ nSleep = 0
        /\ nSend <= 1
        /\ pc \in {"L47", "send", "return", "done"}
        /\ Reported => OnePut("SUCCESS", <<"No action required">>)
        /\ pc = "done" => nSend = 1 /\ ret = RET_SUCCESS

NonCreateIsNoOpWitness ==
    /\ event["RequestType"] = "Update"
    /\ pc = "done"
    /\ OnePut("SUCCESS", <<"No action required">>)
    /\ ret = RET_SUCCESS

(* C4: once a status query of a create event has answered SUCCEEDED (which
   happens only after a remaining-time reading of at least 60 s and with
   less than 900 s elapsed), exactly one callback is sent, it has Status
   SUCCESS and its message contains the build identifier, and the handler
   returns the success payload. *)
SucceededIsReported ==
    status = "SUCCEEDED" =>
        /\ event["RequestType"] = "Create"
        /\ remaining_time >= 60000
        /\ elapsed_time < 900
        /\ nSend = 1
        /\ send_args.responseStatus = "SUCCESS"
        /\ Mentions(Message, build_id)
        /\ pc \in {"send", "return", "done"}
        /\ Reported => OnePut("SUCCESS", Message)
        /\ pc = "done" => ret = RET_SUCCESS

SucceededIsReportedWitness ==
    /\ status = "SUCCEEDED"
    /\ pc = "done"
    /\ nQuery >= 2
    /\ OnePut("SUCCESS", <<"CodeBuild project completed successfully. Build ID: ",
                           build_id>>)
    /\ ret = RET_SUCCESS

(* C5: once a status query has answered FAILED, FAULT, STOPPED or TIMED_OUT,
   exactly one callback is sent, with Status FAILED and a message naming
   that status and the build identifier, the handler returns the
   build_failed payload, and no status query or sleep happens afterwards. *)
BuildFailedState ==
    status \in FailureStatuses =>
        /\ nSend = 1
        /\ send_args.responseStatus = "FAILED"
        /\ Mentions(Message, status)
        /\ Mentions(Message, build_id)
        /\ Reported => OnePut("FAILED", Message)
        /\ pc = "done" => ret = RET_BUILD_FAILED

NoPollAfterBuildFailed ==
    status \in FailureStatuses =>
        /\ nQuery' = nQuery
        /\ nSleep' = nSleep
        /\ nRemaining' = nRemaining
        /\ nSend' = nSend

BuildFailedIsReported ==
    []BuildFailedState /\ [][NoPollAfterBuildFailed]_vars

BuildFailedIsReportedWitness ==
    /\ status = "TIMED_OUT"
    /\ pc = "done"
    /\ nQuery >= 2
    /\ OnePut("FAILED", <<"CodeBuild ", "TIMED_OUT", ". Build ID: ", build_id,
                          ". Check CloudWatch logs.">>)
    /\ ret = RET_BUILD_FAILED

(* C6: once a remaining-time reading at the start of a poll iteration is
   below 60 s, exactly one callback is sent, with Status FAILED and the
   timeout message, the handler returns the timeout payload, and no status
   query is made in that iteration or later, whatever the build's status
   is by then. *)
ImminentTimeout == remaining_time >= 0 /\ remaining_time < 60000

ImminentTimeoutState ==
    ImminentTimeout =>
        /\ nSend = 1
        /\ send_args.responseStatus = "FAILED"
        /\ Mentions(Message, "Lambda timeout approaching. Build ")
        /\ Mentions(Message, build_id)
        /\ nQuery = nSleep
        /\ nRemaining = nQuery + 1
        /\ status \in {"", "IN_PROGRESS"}
        /\ pc \in {"send", "return", "done"}
        /\ Reported => OnePut("FAILED", Message)
        /\ pc = "done" => ret = RET_TIMEOUT

NoPollAfterImminentTimeout ==
    ImminentTimeout =>
        /\ nQuery' = nQuery
        /\ nSleep' = nSleep
        /\ nRemaining' = nRemaining
        /\ nSend' = nSend

ImminentTimeoutIsReported ==
    []ImminentTimeoutState /\ [][NoPollAfterImminentTimeout]_vars

ImminentTimeoutIsReportedWitness ==
    /\ remaining_time = 59999
    /\ build_state = "SUCCEEDED"
    /\ nQuery >= 1
    /\ pc = "done"
    /\ OnePut("FAILED", <<"Lambda timeout approaching. Build ", build_id,
                          " still running. Please check CodeBuild console.">>)
    /\ ret = RET_TIMEOUT

(* C7: on the host, where the clock runs down by 30 s during each sleep and
   the invocation is terminated when it reaches 0, a create invocation
   whose trigger succeeded is never terminated before it has called send()
   and issued its PUT. *)
CallbackBeforeKill ==
    (pc = "killed" /\ event["RequestType"] = "Create" /\ build_id # "") =>
        nSend = 1 /\ Len(puts) = 1

CallbackBeforeKillWitness ==
    /\ pc = "killed"
    /\ event["RequestType"] = "Create"
    /\ build_id # ""
    /\ nSleep >= 1
    /\ host_remaining = 0
    /\ OnePut("FAILED", <<"Lambda timeout approaching. Build ", build_id,
                          " still running. Please check CodeBuild console.">>)

(* C8: when the build-trigger call of a create event raises, the handler
   makes no status query, calls the trigger once only, sends exactly one
   FAILED callback whose message contains the error text, and returns the
   error payload. *)
TriggerRaised == nTrigger >= 1 /\ build_id = ""

TriggerErrorIsReported ==
    /\ nTrigger <= 1
    /\ TriggerRaised =>
        /\ event["RequestType"] = "Create"
        /\ exc \in ErrorTexts
        /\ nQuery = 0
        /\ nRemaining = 0
        /\ nSleep = 0
        /\ pc \in {"L104", "send", "return", "done"}
        /\ nSend = IF pc = "L104" THEN 0 ELSE 1
        /\ pc # "L104" =>
              /\ send_args.responseStatus = "FAILED"
              /\ Mentions(Message, exc)
        /\ Reported => OnePut("FAILED", <<"Error: ", exc>>)
        /\ pc = "done" => ret = RET_ERROR

TriggerErrorIsReportedWitness ==
    /\ TriggerRaised
    /\ exc = "AccessDeniedException"
    /\ pc = "done"
    /\ OnePut("FAILED", <<"Error: ", "AccessDeniedException">>)
    /\ ret = RET_ERROR

(* C9: an exception raised by the remaining-time query or by a status query,
   in any iteration, is caught by the handler: one FAILED callback with the
   exception's text is sent, no further status query is made, the handler
   returns the error payload and no exception escapes. *)
PollRaised == exc # "" /\ build_id # ""

PollErrorState ==
    /\ pc # "raised"
    /\ PollRaised =>
        /\ pc \in {"L104", "send", "return", "done"}
        /\ nSend = IF pc = "L104" THEN 0 ELSE 1
        /\ pc # "L104" =>
              /\ send_args.responseStatus = "FAILED"
              /\ Message = <<"Error: ", exc>>
        /\ Reported => OnePut("FAILED", <<"Error: ", exc>>)
        /\ pc = "done" => ret = RET_ERROR

NoPollAfterError ==
    PollRaised =>
        /\ nQuery' = nQuery
        /\ nSleep' = nSleep
        /\ nRemaining' = nRemaining
        /\ nTrigger' = nTrigger

PollErrorIsReported ==
    []PollErrorState /\ [][NoPollAfterError]_vars

PollErrorIsReportedWitness ==
    /\ PollRaised
    /\ nQuery >= 3
    /\ nRemaining = nQuery
    /\ status = "IN_PROGRESS"
    /\ pc = "done"
    /\ OnePut("FAILED", <<"Error: ", "list index out of range">>)
    /\ ret = RET_ERROR

(* C10: when the PUT raises, send() returns the empty result and nothing
   propagates: on every exit path the handler returns the payload that the
   path alone determines, makes no second delivery attempt, and raises
   nothing. *)
PayloadOfPath ==
    IF event["RequestType"] # "Create" THEN RET_SUCCESS
    ELSE IF exc # "" THEN RET_ERROR
    ELSE IF status = "SUCCEEDED" THEN RET_SUCCESS
    ELSE IF status \in FailureStatuses THEN RET_BUILD_FAILED
    ELSE RET_TIMEOUT

DeliveryFailureState ==
    /\ pc # "raised"
    /\ pc = "done" => ret = PayloadOfPath
    /\ Reported =>
          /\ Len(puts) = 1
          /\ send_result \in {EmptyDict, puts[1].body}
    /\ send_result = EmptyDict =>
        /\ pc \in {"return", "done"}
        /\ nSend = 1
        /\ Len(puts) = 1

NoRetryOfDelivery ==
    send_result = EmptyDict => (nSend' = nSend /\ puts' = puts /\ exc' = exc)

DeliveryFailureIsNotFatal ==
    []DeliveryFailureState /\ [][NoRetryOfDelivery]_vars

DeliveryFailureIsNotFatalWitness ==
    /\ send_result = EmptyDict
    /\ pc = "done"
    /\ status = "SUCCEEDED"
    /\ ret = RET_SUCCESS
    /\ Len(puts) = 1

(* C11: when the first remaining-time reading is at most the host's 900 s
   ceiling and every later reading is at least 30 s below the one before,
   the loop never ends by its own budget: the report after the loop
   (lines 98-102) is never made, a reading below 60 s comes first. *)
LoopTimeoutUnreachable ==
    /\ send_args.site # "L99"
    /\ ~(pc = "L66" /\ elapsed_time >= max_wait_time)
    /\ pc = "L76" => /\ remaining_time >= 60000
                      /\ remaining_time <= 900000 - nSleep * 30000
                      /\ nSleep <= 28

LoopTimeoutUnreachableWitness ==
    /\ pc = "done"
    /\ send_args.site = "L70"
    /\ nSleep = 29
    /\ elapsed_time = 870
    /\ remaining_time = 30000
    /\ ret = RET_TIMEOUT

(* C12: every callback issued, on any branch, carries the event's StackId,
   RequestId and LogicalResourceId unchanged and is PUT to the event's
   ResponseURL; the handler never changes the event. *)
CallbackEchoesEvent ==
    \A i \in DOMAIN puts :
        /\ puts[i].url = event["ResponseURL"]
        /\ puts[i].body.StackId = event["StackId"]
        /\ puts[i].body.RequestId = event["RequestId"]
        /\ puts[i].body.LogicalResourceId = event["LogicalResourceId"]

EventUnaltered == event' = event

CorrelationIsEchoed ==
    []CallbackEchoesEvent /\ [][EventUnaltered]_vars

CorrelationIsEchoedWitness ==
    /\ pc = "done"
    /\ status = "FAULT"
    /\ Len(puts) = 1
    /\ puts[1].url = "https://cfn.example/response/2"
    /\ puts[1].body.StackId = "stack-2"
    /\ puts[1].body.RequestId = "request-2"
    /\ puts[1].body.LogicalResourceId = "resource-2"

(* C13: one build per invocation: the only calls made on the build service
   are start_build and batch_get_builds (never a stop), start_build is
   called at most once and exactly once by a create invocation that has
   returned, and every batch_get_builds comes after it and asks for exactly
   the build id that call returned. *)
StartBuildCalls ==
    { i \in DOMAIN codebuild_calls : codebuild_calls[i].op = "start_build" }

OneBuildSupervised ==
    /\ \A i \in DOMAIN codebuild_calls :
          codebuild_calls[i].op \in {"start_build", "batch_get_builds"}
    /\ Cardinality(StartBuildCalls) <= 1
    /\ Cardinality(StartBuildCalls) = nTrigger
    /\ \A i \in DOMAIN codebuild_calls :
          codebuild_calls[i].op = "batch_get_builds" =>
              /\ i > 1
              /\ codebuild_calls[1].op = "start_build"
              /\ codebuild_calls[1].id \in BuildIds
              /\ codebuild_calls[i].ids = <<codebuild_calls[1].id>>
    /\ (pc = "done" /\ event["RequestType"] = "Create") =>
          StartBuildCalls = {1}
    /\ event["RequestType"] # "Create" => codebuild_calls = <<>>

OneBuildSupervisedWitness ==
    /\ pc = "done"
    /\ status = "FAILED"
    /\ Len(codebuild_calls) = 4
    /\ codebuild_calls[1] = [op |-> "start_build", id |-> "mirror:build-2"]
    /\ codebuild_calls[4] =
          [op |-> "batch_get_builds", ids |-> <<"mirror:build-2">>]

(* C14: elapsed_time is 30 times the number of polls that answered a
   non-terminal status (each followed by one sleep), hence a multiple of 30
   in 0..900, and changes only by +30 in such a step; at most 30 status
   queries are made; and when 30 polls answered a non-terminal status with
   every reading at or above 60 s, the loop ends and exactly one FAILED
   callback is sent and the timeout payload returned. *)
PollAccountingState ==
    /\ elapsed_time \in 0..900
    /\ elapsed_time % 30 = 0
    /\ elapsed_time = 30 * nSleep
    /\ nQuery <= 30
    /\ nQuery \in {nSleep, nSleep + 1}
    /\ pc = "L53" => elapsed_time = 0
    /\ (nSleep = 30 /\ pc # "L66") =>
          /\ send_args.site = "L99"
          /\ nQuery = 30
          /\ status = "IN_PROGRESS"
          /\ remaining_time >= 60000
          /\ nSend = 1
          /\ send_args.responseStatus = "FAILED"
          /\ pc \in {"send", "return", "done"}
          /\ Reported =>
                OnePut("FAILED", <<"CodeBuild did not complete within ", "900",
                                   "s. Build ID: ", build_id>>)
          /\ pc = "done" => ret = RET_TIMEOUT
    /\ send_args.site = "L99" => nSleep = 30

PollAccountingStep ==
    elapsed_time' # elapsed_time =>
        /\ elapsed_time' = elapsed_time + 30
        /\ status = "IN_PROGRESS"
        /\ nSleep' = nSleep + 1
        /\ nQuery' = nQuery

PollAccounting ==
    []PollAccountingState /\ [][PollAccountingStep]_vars

PollAccountingWitness ==
    /\ pc = "done"
    /\ nQuery = 30
    /\ elapsed_time = 900
    /\ remaining_time = 60000
    /\ OnePut("FAILED", <<"CodeBuild did not complete within ", "900",
                          "s. Build ID: ", build_id>>)
    /\ ret = RET_TIMEOUT

(* C15: when every external call returns or raises, the invocation
   eventually returns, and it starts at most 30 poll iterations on the
   way, also when the build stays in progress for ever. *)
AtMostThirtyIterations == nRemaining <= 30 /\ nQuery <= 30 /\ nSleep <= 30

Terminates == <>(pc = "done") /\ []AtMostThirtyIterations

TerminatesWitness ==
    /\ pc = "done"
    /\ build_state = "IN_PROGRESS"
    /\ nRemaining = 30
    /\ nSleep = 30
    /\ ret = RET_TIMEOUT

(* C16: the callback is the last external action: once send() has been
   called, no build-trigger call, status query, remaining-time query or
   sleep happens any more. *)
NoExternalActionAfterSend ==
    nSend >= 1 =>
        /\ nTrigger' = nTrigger
        /\ nQuery' = nQuery
        /\ nRemaining' = nRemaining
        /\ nSleep' = nSleep
        /\ codebuild_calls' = codebuild_calls
        /\ pc' \in {"send", "return", "done"}

CallbackIsLast == [][NoExternalActionAfterSend]_vars

CallbackIsLastWitness ==
    /\ pc = "done"
    /\ nSend = 1
    /\ status = "STOPPED"
    /\ nQuery = 2
    /\ nSleep = 1
    /\ nRemaining = 2
    /\ Len(codebuild_calls) = 3

(* C17: the returned payload agrees with the callback: the success payload
   is returned exactly when the callback sent had Status SUCCESS, and one
   of the three status-500 payloads exactly when it had Status FAILED. *)
PayloadAgreesWithCallback ==
    pc = "done" =>
        /\ Len(puts) = 1
        /\ puts[1].body.Status \in {"SUCCESS", "FAILED"}
        /\ ret \in {RET_SUCCESS, RET_TIMEOUT, RET_BUILD_FAILED, RET_ERROR}
        /\ ret = RET_SUCCESS <=> puts[1].body.Status = "SUCCESS"
        /\ ret \in {RET_TIMEOUT, RET_BUILD_FAILED, RET_ERROR}
              <=> puts[1].body.Status = "FAILED"

PayloadAgreesWithCallbackWitness ==
    /\ pc = "done"
    /\ Len(puts) = 1
    /\ puts[1].body.Status = "FAILED"
    /\ exc = "list index out of range"
    /\ ret = RET_ERROR

(* C18: the threshold is strict: a reading leads to the timeout report
   exactly when it is below 60000 ms; a reading of 60000 ms or more leads
   to the status query of that iteration. *)
ThresholdState ==
    /\ pc = "L76" => remaining_time >= 60000 /\ nQuery = nRemaining - 1
    /\ send_args.site = "L70" <=> (remaining_time >= 0 /\ remaining_time < 60000)

ThresholdStep ==
    /\ (pc = "L68" /\ pc' \notin {"L68", "L104"}) =>
          /\ nRemaining' = nRemaining + 1
          /\ remaining_time' < 60000 =>
                pc' = "send" /\ send_args'.site = "L70" /\ nQuery' = nQuery
          /\ remaining_time' >= 60000 => pc' = "L76"
    /\ (pc = "L76" /\ pc' # "L76") => nQuery' = nQuery + 1

ThresholdIsStrict == []ThresholdState /\ [][ThresholdStep]_vars

ThresholdIsStrictWitness ==
    /\ remaining_time = 60000
    /\ nRemaining = 1
    /\ nQuery = 1
    /\ status = "SUCCEEDED"
    /\ pc = "done"
    /\ ret = RET_SUCCESS

====
